---------------------------- MODULE Spec2Model ----------------------------
(***************************************************************************)
(* Model of the Game of Life engine of tkinter_game_of_life:               *)
(*   tkinter_cell.py        Cell, CellState                                *)
(*   tkinter_game_board.py  GameRules, GameBoard                           *)
(*   tkinter_gui.py         GameBoardGUI (the canvas), GameConfigGUI (the  *)
(*                          configuration form), GameRulesGUI (the rule    *)
(*                          checkboxes), GameApp (play, pause, stop and    *)
(*                          the frame timer)                               *)
(*                                                                         *)
(* A cell object is identified with its grid position <<x, y>> (the code   *)
(* keeps the bijection in _cell_positions).  Python lists are modelled as  *)
(* functions over 0..n-1, so that Python's index arithmetic (negative      *)
(* indices included) is kept as the interpreter performs it.               *)
(***************************************************************************)
EXTENDS Integers, Sequences, FiniteSets, TLC

VARIABLES
    num_cells_x,   \* GameBoard._num_cells_x
    num_cells_y,   \* GameBoard._num_cells_y
    board,         \* GameBoard._board: board[y][x] is the state of the cell
    neighbors,     \* GameBoard._neighbors: position -> list of positions
    generation,    \* GameBoard._generation
    live_count,    \* GameBoard._live_count
    rules,         \* GameRules._transitions
    last,          \* the last call made: [op, err, px, py]
    ret,           \* the list the last call returned (<<>> when it returns None)
    steps,         \* history: update() calls since the last construction/reset/resize
    initial_changes,  \* GameBoard._initial_changes
    config,        \* GameConfig: the current scale, num_cells_x, num_cells_y, fps
    playing,       \* GameApp._playing
    play_id,       \* GameApp._play_id: a handle of after(), or NoTimer
    delay,         \* GameApp._delay
    timers,        \* Tk's pending after() callbacks of _play_frame: their handles
    after_ms,      \* the ms each pending callback was given to after(): handle -> ms
    links,         \* GameBoardGUI.links: cell -> rectangle of the canvas
    canvas,        \* the rectangles of GameBoardGUI's canvas: item id -> fill
    checks         \* GameRulesGUI._vars: <<rule, n>> -> value of the checkbox

\* The fields of GameApp and GameConfig.
app_vars == <<config, playing, play_id, delay, timers, after_ms>>

\* The widgets: the canvas with its links, and the rule checkboxes.
gui_vars == <<links, canvas, checks>>

vars == <<num_cells_x, num_cells_y, board, neighbors, generation, live_count,
          rules, last, ret, steps, initial_changes, app_vars, gui_vars>>

(***************************** bounds **************************************)
\* Largest number of cells (width * height) of the boards of Spec.
MaxCells == 2
\* Largest generation reached by update() in Spec.
MaxGen == 2
\* Largest number of cells of the boards of SpecStep, and its generations.
StepMaxCells == 9
StepMaxGen == 1
\* SpecRules: cells of its boards, its generations, and the number of
\* entries by which its rule tables differ from the defaults.
RuleMaxCells == 2
RuleMaxGen == 1
MaxRuleEdits == 1
\* SpecGui: cells of its boards; SpecGui and SpecConfig: their generations.
GuiMaxCells == 2
GuiMaxGen == 1
\* SpecConfig: cells of its boards (its entry texts ask for one cell a side).
FormMaxCells == 1
\* SpecCanvas: cells of its boards, and its generations.
CanvasMaxCells == 2
CanvasMaxGen == 1
\* SpecChecks: cells of its boards, its generations, and the number of
\* checkboxes that differ from their initial values.
CheckMaxCells == 1
CheckMaxGen == 1
MaxCheckEdits == 1
\* SpecTimer: cells of its boards, and its generations.
TimerMaxCells == 1
TimerMaxGen == 2

(***************************** program constants ***************************)
\* GameConfig.__init__: _default_scale, _default_fps.
DefaultScale == 16
DefaultFps == 30
\* GameApp.__init__: self._delay = 30 and self._play_id = None.
InitialDelay == 30
NoTimer == 0
\* _validate_fps: "if input_value > 1000".
MaxFps == 1000
\* play_pause: "self._delay = 1000 // self._board_config.get_fps()".
MsPerSecond == 1000

(***************************** Cell ****************************************)
dead == "dead"
alive == "alive"
CellState == {dead, alive}

\* Cell.toggle_state with the flip dropped: the cell is always set alive.
toggle_state_stuck(state) == alive

\* Cell.toggle_state: the new state, which is also the value returned.
toggle_state(state) == IF state = dead THEN alive ELSE dead

(***************************** GameRules ***********************************)
\* GameRules.__init__: the default transitions.
DefaultRules ==
    [s \in CellState |->
        [n \in 0..8 |->
            IF s = alive
            THEN (IF n \in {2, 3} THEN alive ELSE dead)
            ELSE (IF n = 3 THEN alive ELSE dead)]]

\* The neighbour counts a cell can have: the keys __init__ gives each row.
NeighborCounts == 0..8

\* get_next_state reading the defaults whatever the table holds.
get_next_state_default(rls, state, n) == DefaultRules[state][n]

\* GameRules.get_next_state, line 19: two dict lookups.
get_next_state(rls, state, n) == rls[state][n]

\* The lookups of line 19 raise KeyError when a key is missing.
get_next_state_raises(rls, state, n) ==
    \/ state \notin DOMAIN rls
    \/ n \notin DOMAIN rls[state]

\* set_rule replacing the whole row by the one entry.
set_rule_replace(rls, state, n, newrule) ==
    [rls EXCEPT ![state] = [k \in {n} |-> newrule]]

\* GameRules.set_rule, line 22: a dict assignment, which overwrites the entry
\* of key n or adds one when the row has no such key.
set_rule(rls, state, n, newrule) ==
    [rls EXCEPT ![state] =
        [k \in (DOMAIN @) \cup {n} |-> IF k = n THEN newrule ELSE @[k]]]

(***************************** Python lists ********************************)
\* range(n)
Range(n) == 0..(n - 1)
\* len(l) of a list modelled as a function over 0..n-1
PyLen(l) == Cardinality(DOMAIN l)
\* l[i] raises IndexError unless -len(l) <= i < len(l)
IndexOK(l, i) == (0 - PyLen(l)) <= i /\ i < PyLen(l)
\* the position l[i] reads
NormIndex(l, i) == IF i >= 0 THEN i ELSE i + PyLen(l)


(***************************** GameBoard: data *****************************)
\* The positions of the cells of board b (the keys of _cell_positions).
Grid(b) == UNION {{<<x, y>> : x \in DOMAIN b[y]} : y \in DOMAIN b}

\* The state of the cell at position c.
CellAt(b, c) == b[c[2]][c[1]]

\* "for row in self._board: for cell in row": the cells in row-major order.
ScanOrder(b) ==
    LET h == PyLen(b)
        w == IF h = 0 THEN 0 ELSE PyLen(b[0])
    IN  [i \in 1..(w * h) |-> <<(i - 1) % w, (i - 1) \div w>>]

\* product([-1, 0, 1], repeat=2) without (0, 0), in product's order.
_DIRECTIONS ==
    << <<-1, -1>>, <<-1, 0>>, <<-1, 1>>, <<0, -1>>,
       <<0, 1>>, <<1, -1>>, <<1, 0>>, <<1, 1>> >>

\* _find_neighbors with the two bounds tests replaced by a wraparound.
_find_neighbors_wrap(w, h, pos) ==
    [i \in 1..Len(_DIRECTIONS) |->
        <<(pos[1] + _DIRECTIONS[i][1]) % w, (pos[2] + _DIRECTIONS[i][2]) % h>>]

\* GameBoard._find_neighbors: the in-bounds neighbours, in _DIRECTIONS order.
_find_neighbors(w, h, pos) ==
    LET cand == [i \in 1..Len(_DIRECTIONS) |->
                    <<pos[1] + _DIRECTIONS[i][1], pos[2] + _DIRECTIONS[i][2]>>]
        keep(q) == /\ ~(q[1] < 0 \/ q[1] >= w)
                   /\ ~(q[2] < 0 \/ q[2] >= h)
    IN  SelectSeq(cand, keep)

\* GameBoard._create_neighbor_map
_create_neighbor_map(b, w, h) == [c \in Grid(b) |-> _find_neighbors(w, h, c)]

\* GameBoard._get_num_live_neighbors: the length of the filtered list.
_get_num_live_neighbors(b, nbrs, c) ==
    Cardinality({i \in DOMAIN nbrs[c] : CellAt(b, nbrs[c][i]) = alive})

\* GameBoard._generate: the rows built by the two range() loops.  The draw
\* randint(0, 2) matters only through "rand_num == 0": A is the set of the
\* cells whose draw was 0.
_generate(w, h, A) ==
    [y \in Range(h) |-> [x \in Range(w) |-> IF <<x, y>> \in A THEN alive ELSE dead]]

\* The live count left by a seeding that starts from lc and adds 1 per Alive cell.
seed_live_count(lc, A) == lc + Cardinality(A)

\* cell.set_alive() / cell.set_dead() for every cell of the list cells.
set_cells(b, cells, state) ==
    LET S == {cells[i] : i \in DOMAIN cells}
    IN  [y \in DOMAIN b |-> [x \in DOMAIN b[y] |->
            IF <<x, y>> \in S THEN state ELSE b[y][x]]]

\* GameBoard.clear: every cell set dead.
clear_board(b) == [y \in DOMAIN b |-> [x \in DOMAIN b[y] |-> dead]]

(***************************** GameBoard.update ****************************)
\* The scan of update(): lines 145-159.  acc holds tkinter_data, spawning,
\* dying and _live_count; the cells are read from b, which the scan leaves alone.
RECURSIVE update_scan(_, _, _, _, _, _)
update_scan(b, nbrs, rls, cells, i, acc) ==
    IF i > Len(cells) THEN acc
    ELSE
        LET cell == cells[i]
            num_live_neighbors == _get_num_live_neighbors(b, nbrs, cell)
            current_state == CellAt(b, cell)
            next_state == get_next_state(rls, current_state, num_live_neighbors)
            acc2 ==
                IF next_state # current_state
                THEN IF next_state = alive
                     THEN [data |-> Append(acc.data, <<cell, next_state>>),
                           spawning |-> Append(acc.spawning, cell),
                           dying |-> acc.dying,
                           live |-> acc.live + 1]
                     ELSE [data |-> Append(acc.data, <<cell, next_state>>),
                           spawning |-> acc.spawning,
                           dying |-> Append(acc.dying, cell),
                           live |-> acc.live - 1]
                ELSE acc
        IN  update_scan(b, nbrs, rls, cells, i + 1, acc2)

\* update() as a sequential in-place update: each cell is set as soon as its
\* next state is known, so later cells count already-updated neighbours.
RECURSIVE update_scan_inplace(_, _, _, _, _, _)
update_scan_inplace(b, nbrs, rls, cells, i, acc) ==
    IF i > Len(cells) THEN [board |-> b, data |-> acc.data, live |-> acc.live]
    ELSE
        LET cell == cells[i]
            current_state == CellAt(b, cell)
            next_state == get_next_state(rls, current_state,
                                         _get_num_live_neighbors(b, nbrs, cell))
        IN  IF next_state # current_state
            THEN update_scan_inplace(
                     set_cells(b, <<cell>>, next_state), nbrs, rls, cells, i + 1,
                     [data |-> Append(acc.data, <<cell, next_state>>),
                      live |-> acc.live + (IF next_state = alive THEN 1 ELSE -1)])
            ELSE update_scan_inplace(b, nbrs, rls, cells, i + 1, acc)

update_inplace(b, nbrs, rls, lc) ==
    update_scan_inplace(b, nbrs, rls, ScanOrder(b), 1, [data |-> <<>>, live |-> lc])

\* update() reporting every scanned cell, changed or not.
update_report_all(b, nbrs, rls, lc) ==
    LET acc == update_scan(b, nbrs, rls, ScanOrder(b), 1,
                   [data |-> <<>>, spawning |-> <<>>, dying |-> <<>>, live |-> lc])
        nb == set_cells(set_cells(b, acc.spawning, alive), acc.dying, dead)
        cells == ScanOrder(b)
    IN  [board |-> nb,
         data |-> [i \in 1..Len(cells) |-> <<cells[i], CellAt(nb, cells[i])>>],
         live |-> acc.live]

\* update() returning at once, with nothing changed, when _live_count is 0.
update_skip_empty(b, nbrs, rls, lc) ==
    LET acc == update_scan(b, nbrs, rls, ScanOrder(b), 1,
                   [data |-> <<>>, spawning |-> <<>>, dying |-> <<>>, live |-> lc])
    IN  IF lc = 0
        THEN [board |-> b, data |-> <<>>, live |-> lc]
        ELSE [board |-> set_cells(set_cells(b, acc.spawning, alive), acc.dying, dead),
              data |-> acc.data,
              live |-> acc.live]

\* GameBoard.update, lines 142-166: the scan, then the two passes that set
\* the states; the result is the new board, the returned list and _live_count.
update(b, nbrs, rls, lc) ==
    LET acc == update_scan(b, nbrs, rls, ScanOrder(b), 1,
                   [data |-> <<>>, spawning |-> <<>>, dying |-> <<>>, live |-> lc])
    IN  [board |-> set_cells(set_cells(b, acc.spawning, alive), acc.dying, dead),
         data |-> acc.data,
         live |-> acc.live]

\* The scan positions at which the lookup of line 149 raises KeyError.
update_raising(b, nbrs, rls) ==
    {i \in DOMAIN ScanOrder(b) :
        get_next_state_raises(rls, CellAt(b, ScanOrder(b)[i]),
            _get_num_live_neighbors(b, nbrs, ScanOrder(b)[i]))}

\* update() raises: some lookup of its scan does.
update_raises(b, nbrs, rls) == update_raising(b, nbrs, rls) # {}

\* _live_count when the scan is left by the first KeyError: lines 156 and 159
\* have run for the cells scanned before it, lines 161-164 for none.
update_aborted_live(b, nbrs, rls, lc) ==
    LET R == update_raising(b, nbrs, rls)
        k == CHOOSE i \in R : \A j \in R : i <= j
        acc == update_scan(b, nbrs, rls, SubSeq(ScanOrder(b), 1, k - 1), 1,
                   [data |-> <<>>, spawning |-> <<>>, dying |-> <<>>, live |-> lc])
    IN  acc.live

\* "self._generation += 1" written as "+= 2".
next_generation_twice(g) == g + 2

\* update(), line 141.
next_generation(g) == g + 1

(***************************** GameBoard.get_cell **************************)
\* self._board[y][x] raises IndexError: first the row lookup, then the column.
get_cell_raises(b, x, y) ==
    \/ ~IndexOK(b, y)
    \/ ~IndexOK(b[NormIndex(b, y)], x)

\* The cell self._board[y][x] returns (Python's negative indices included).
get_cell(b, x, y) ==
    LET row == NormIndex(b, y)
    IN  <<NormIndex(b[row], x), row>>

(***************************** GameBoard.reset *****************************)
\* reset() without line 185: the count goes on from its old value.
reset_live_count_kept(lc) == lc

\* reset(), line 185: self._live_count = 0
reset_live_count(lc) == 0

\* reset() without line 186: the list goes on from its old entries.
reset_initial_changes_kept(l) == l

\* reset(), line 186: self._initial_changes = []
reset_initial_changes(l) == <<>>

\* _generate lines 99-101 and reset lines 191-193: one (cell, alive) appended
\* to the list l per cell whose draw was 0, in the order of the two loops.
seed_changes(l, b, A) ==
    LET drawn(c) == c \in A
        sel == SelectSeq(ScanOrder(b), drawn)
    IN  l \o [i \in 1..Len(sel) |-> <<sel[i], alive>>]

\* reset(), lines 187-193: cell.set_alive() for the cells whose draw was 0.
reseed(b, A) ==
    [y \in DOMAIN b |-> [x \in DOMAIN b[y] |->
        IF <<x, y>> \in A THEN alive ELSE b[y][x]]]

(***************************** the calls ***********************************)
NoError == "none"
IndexError == "IndexError"
KeyError == "KeyError"

\* What last records: the operation, whether it raised, and (for a rebuild)
\* the dimensions the board had before it.
Call(op, err, px, py) == [op |-> op, err |-> err, px |-> px, py |-> py]

\* The outcomes of the random draws for a w x h board.
Draws(w, h) == SUBSET (Range(w) \X Range(h))

\* The dimensions of the boards of Spec: what the configuration form can
\* store (both >= 1), and what a config can hold (any integers).
FormSizes == {d \in (1..MaxCells) \X (1..MaxCells) : d[1] * d[2] <= MaxCells}
ConfigSizes ==
    {d \in ((0 - 1)..MaxCells) \X ((0 - 1)..MaxCells) :
        d[1] <= 0 \/ d[2] <= 0 \/ d[1] * d[2] <= MaxCells}

\* GameBoardGUI.change_size, lines 139-155, with the config holding the
\* dimensions w, h, on the fields of the board: a new GameBoard (whose own
\* draws A0 are taken from the two extreme outcomes), then reset() with draws
\* A.  call is what last records.
change_size(w, h, A0, A, call) ==
    /\ num_cells_x' = w
    /\ num_cells_y' = h
    /\ board' = reseed(clear_board(_generate(w, h, A0)), A)
    /\ neighbors' = _create_neighbor_map(_generate(w, h, A0), w, h)
    /\ generation' = 0
    /\ live_count' = seed_live_count(
                         reset_live_count(seed_live_count(0, A0)), A)
    /\ initial_changes' =
           seed_changes(
               reset_initial_changes(
                   seed_changes(<<>>, _generate(w, h, A0), A0)),
               _generate(w, h, A0), A)
    /\ rules' = rules
    /\ last' = call
    /\ ret' = <<>>
    /\ steps' = 0

\* A rebuild after the configuration form stored validated (>= 1) dimensions,
\* the simulation not running, for a board that has no canvas.
ChangeSize ==
    \E d \in FormSizes :
        \E A0 \in {{}, Range(d[1]) \X Range(d[2])}, A \in Draws(d[1], d[2]) :
            /\ change_size(d[1], d[2], A0, A,
                           Call("change_size", NoError, num_cells_x, num_cells_y))
            /\ config' = [config EXCEPT !.num_cells_x = d[1],
                                        !.num_cells_y = d[2]]
            /\ UNCHANGED <<playing, play_id, delay, timers, after_ms>>
            /\ UNCHANGED gui_vars

\* GameBoard.reset, lines 182-193, A being the cells whose draw was 0.
reset(A) ==
    /\ generation' = 0
    /\ board' = reseed(clear_board(board), A)
    /\ live_count' = seed_live_count(reset_live_count(live_count), A)
    /\ initial_changes' =
           seed_changes(reset_initial_changes(initial_changes), board, A)
    /\ last' = Call("reset", NoError, 0, 0)
    /\ ret' = <<>>
    /\ steps' = 0
    /\ UNCHANGED <<num_cells_x, num_cells_y, neighbors, rules, app_vars>>

\* reset() called on the board directly.
Reset == \E A \in SUBSET Grid(board) : reset(A) /\ UNCHANGED gui_vars

\* GameBoard.clear, lines 177-180.
clear ==
    /\ board' = clear_board(board)
    /\ last' = Call("clear", NoError, 0, 0)
    /\ ret' = <<>>
    /\ UNCHANGED <<app_vars, initial_changes, num_cells_x, num_cells_y,
                   neighbors, generation, live_count, rules, steps>>

\* clear() called on the board directly.
Clear == clear /\ UNCHANGED gui_vars

\* GameBoard.toggle_cell(x, y), lines 201-204.
toggle_cell(x, y) ==
    IF get_cell_raises(board, x, y)
    THEN /\ last' = Call("toggle", IndexError, 0, 0)
         /\ ret' = <<>>
         /\ UNCHANGED <<app_vars, initial_changes, num_cells_x, num_cells_y,
                        board, neighbors, generation, live_count, rules,
                        steps>>
    ELSE LET cell == get_cell(board, x, y)
             state == toggle_state(CellAt(board, cell))
         IN  /\ board' = set_cells(board, <<cell>>, state)
             /\ last' = Call("toggle", NoError, 0, 0)
             /\ ret' = << <<cell, state>> >>
             /\ UNCHANGED <<app_vars, initial_changes, num_cells_x,
                            num_cells_y, neighbors, generation, live_count,
                            rules, steps>>

\* The coordinates toggle_cell is called with: every index Python accepts
\* for a row (for the list of rows), negative ones included, and one beyond
\* at each end.
RowLen(b) == IF PyLen(b) = 0 THEN 0 ELSE PyLen(b[0])
ToggleXs == (0 - RowLen(board) - 1)..RowLen(board)
ToggleYs == (0 - PyLen(board) - 1)..PyLen(board)

\* toggle_cell(x, y) called on the board directly.
Toggle ==
    \E x \in ToggleXs, y \in ToggleYs : toggle_cell(x, y) /\ UNCHANGED gui_vars

\* GameBoard.update, lines 138-166, while the generation is below bound.  The
\* generation is incremented first (line 141); a KeyError of the scan leaves
\* the cells as they were, the count as the scan had it.  op is what last
\* records: the caller of update().
update_call(op, bound) ==
    /\ generation < bound
    /\ generation' = next_generation(generation)
    /\ IF update_raises(board, neighbors, rules)
       THEN /\ board' = board
            /\ live_count' =
                   update_aborted_live(board, neighbors, rules, live_count)
            /\ ret' = <<>>
            /\ last' = Call(op, KeyError, 0, 0)
       ELSE LET r == update(board, neighbors, rules, live_count)
            IN  /\ board' = r.board
                /\ live_count' = r.live
                /\ ret' = r.data
                /\ last' = Call(op, NoError, 0, 0)
    /\ steps' = steps + 1
    /\ UNCHANGED <<initial_changes, num_cells_x, num_cells_y, neighbors, rules>>

\* update() called on the board directly.
UpdateBelow(bound) ==
    update_call("update", bound) /\ UNCHANGED <<app_vars, gui_vars>>

Update == UpdateBelow(MaxGen)

(***************************** GameBoardGUI ********************************)
WHITE == "#FFFFFF"
BLACK == "#000000"

\* self.colors with the two fills exchanged.
colors_swapped(state) == IF state = alive THEN WHITE ELSE BLACK

\* self.colors, line 71: {CellState.alive: BLACK, CellState.dead: WHITE}.
colors(state) == IF state = alive THEN BLACK ELSE WHITE

\* The id create_rectangle gives the new item: one no item of the canvas has.
\* Tk counts on from the last id of the canvas; the model takes the smallest
\* id that is free.
new_item(cv) ==
    CHOOSE i \in 1..(Cardinality(DOMAIN cv) + 1) :
        /\ i \notin DOMAIN cv
        /\ \A j \in 1..(i - 1) : j \in DOMAIN cv

\* _create_cell_links, lines 108-121, from the i-th cell of the scan on: one
\* rectangle filled colors[dead] per cell, and the link to it.
RECURSIVE _create_cell_links(_, _, _, _)
_create_cell_links(cells, i, lk, cv) ==
    IF i > Len(cells) THEN [links |-> lk, canvas |-> cv]
    ELSE LET square == new_item(cv)
         IN  _create_cell_links(
                 cells, i + 1,
                 [c \in (DOMAIN lk) \cup {cells[i]} |->
                     IF c = cells[i] THEN square ELSE lk[c]],
                 [id \in (DOMAIN cv) \cup {square} |->
                     IF id = square THEN colors(dead) ELSE cv[id]])

\* _draw_changes, lines 102-106, from the i-th entry of celldata on.
RECURSIVE _draw_changes(_, _, _, _)
_draw_changes(cv, lk, celldata, i) ==
    IF i > Len(celldata) THEN cv
    ELSE _draw_changes(
             [cv EXCEPT ![lk[celldata[i][1]]] = colors(celldata[i][2])],
             lk, celldata, i + 1)

\* __init__ lines 78-80 on the new canvas, reset lines 134-137 and
\* change_size (new canvas, then reset): no rectangle is left, the links are
\* made anew for board b and the initial states are drawn.
redraw(b, initial_states) ==
    LET made == _create_cell_links(ScanOrder(b), 1, <<>>, <<>>)
    IN  [links |-> made.links,
         canvas |-> _draw_changes(made.canvas, made.links, initial_states, 1)]

\* GameBoardGUI.update, lines 84-88 (the Advance button and the frame timer
\* call it): the board's update(), then the deltas it returned are drawn.  A
\* KeyError of update() leaves the canvas as it was.
gui_update(op, bound) ==
    /\ update_call(op, bound)
    /\ canvas' = _draw_changes(canvas, links, ret', 1)
    /\ UNCHANGED <<links, checks>>

\* The pixels a click on the canvas can report along an axis of n cells: the
\* first and the last pixel of every cell, and the first pixel past the
\* last cell (the canvas window is wider than the grid by its highlight
\* border).
ClickPixels(n, scale) ==
    {i * scale : i \in 0..n} \cup {i * scale + (scale - 1) : i \in Range(n)}

\* GameBoardGUI.toggle_cell(event), lines 93-100, with event.x = ex and
\* event.y = ey.  self._scale is the scale of the config: both change in
\* the same handler (_set_options).
gui_toggle_cell(ex, ey) ==
    /\ toggle_cell(ex \div config.scale, ey \div config.scale)
    /\ canvas' = _draw_changes(canvas, links, ret', 1)
    /\ UNCHANGED <<links, checks>>

GuiToggle ==
    \E ex \in ClickPixels(num_cells_x, config.scale),
       ey \in ClickPixels(num_cells_y, config.scale) :
        gui_toggle_cell(ex, ey)

\* GameBoardGUI.clear, lines 123-128 (the Clear button).
GuiClear ==
    /\ clear
    /\ canvas' =
           _draw_changes(canvas, links,
               [i \in 1..Len(ScanOrder(board)) |-> <<ScanOrder(board)[i], dead>>],
               1)
    /\ UNCHANGED <<links, checks>>

\* GameBoardGUI.reset, lines 130-137 (GameApp.reset, the Reset button).
GuiReset ==
    \E A \in SUBSET Grid(board) :
        /\ reset(A)
        /\ links' = redraw(board', initial_changes').links
        /\ canvas' = redraw(board', initial_changes').canvas
        /\ checks' = checks

(***************************** GameRulesGUI ********************************)
\* The names of the checkboxes: "survive n" and "born n" for n in range(9).
RuleNames == {"survive", "born"}
CheckNames == RuleNames \X Range(9)

\* GameRulesGUI.__init__, lines 329-343: every BooleanVar starts False, then
\* born 3, survive 2 and survive 3 are set.
DefaultChecks ==
    [k \in CheckNames |->
        k \in {<<"born", 3>>, <<"survive", 2>>, <<"survive", 3>>}]

\* self._vars in insertion order: survive 0..8, then born 0..8.
CheckOrder ==
    [i \in 1..18 |-> <<IF i <= 9 THEN "survive" ELSE "born", (i - 1) % 9>>]

\* set_value with the test of the name always taking its first branch.
rule_state_alive(name) == alive

\* set_value, lines 356-359: the state whose rules the checkbox edits.
rule_state(name) == IF name = "survive" THEN alive ELSE dead

\* self._state_values[value.get()], lines 308 and 360.
_state_values(value) == IF value THEN alive ELSE dead

\* GameRulesGUI.set_value, lines 351-361, from the i-th checkbox on: one
\* set_rule per checkbox.
RECURSIVE set_value(_, _, _)
set_value(rls, chk, i) ==
    IF i > Len(CheckOrder) THEN rls
    ELSE set_value(
             set_rule(rls, rule_state(CheckOrder[i][1]), CheckOrder[i][2],
                      _state_values(chk[CheckOrder[i]])),
             chk, i + 1)

\* The number of checkboxes that differ from their initial values.
CheckEdits(chk) == Cardinality({k \in CheckNames : chk[k] # DefaultChecks[k]})

\* A click on the checkbox k: Tk flips its variable, then runs the command
\* set_value.  Clicks that leave more than bound checkboxes changed are left
\* out.
CheckClick(k, bound) ==
    /\ CheckEdits([checks EXCEPT ![k] = ~checks[k]]) <= bound
    /\ checks' = [checks EXCEPT ![k] = ~checks[k]]
    /\ rules' = set_value(rules, checks', 1)
    /\ last' = Call("set_value", NoError, 0, 0)
    /\ ret' = <<>>
    /\ UNCHANGED <<app_vars, links, canvas, initial_changes, num_cells_x,
                   num_cells_y, board, neighbors, generation, live_count,
                   steps>>

(***************************** GameRules: the calls ************************)
\* The counts the rule calls are made with: the keys and one beyond each end.
RuleCounts == (0 - 1)..9

\* The number of entries by which a table differs from the defaults.
RuleEdits(rls) ==
    Cardinality({e \in CellState \X RuleCounts :
                    /\ e[2] \in DOMAIN rls[e[1]]
                    /\ \/ e[2] \notin NeighborCounts
                       \/ rls[e[1]][e[2]] # DefaultRules[e[1]][e[2]]})

\* GameRules.set_rule(state, n, newrule), lines 21-22.
set_rule_call(state, n, newrule) ==
    /\ rules' = set_rule(rules, state, n, newrule)
    /\ last' = Call("set_rule", NoError, 0, 0)
    /\ ret' = <<>>
    /\ UNCHANGED <<app_vars, gui_vars, initial_changes, num_cells_x,
                   num_cells_y, board, neighbors, generation, live_count,
                   steps>>

\* set_rule calls that keep the table within bound edits of the defaults.
SetRuleWithin(bound) ==
    \E state \in CellState, n \in RuleCounts, newrule \in CellState :
        /\ RuleEdits(set_rule(rules, state, n, newrule)) <= bound
        /\ set_rule_call(state, n, newrule)

\* GameRules.get_next_state(state, n), lines 18-19: ret is the state returned.
get_next_state_call(state, n) ==
    /\ IF get_next_state_raises(rules, state, n)
       THEN /\ last' = Call("get_next_state", KeyError, 0, 0)
            /\ ret' = <<>>
       ELSE /\ last' = Call("get_next_state", NoError, 0, 0)
            /\ ret' = <<get_next_state(rules, state, n)>>
    /\ UNCHANGED <<app_vars, gui_vars, initial_changes, num_cells_x,
                   num_cells_y, board, neighbors, generation, live_count,
                   rules, steps>>

GetNextState ==
    \E state \in CellState, n \in RuleCounts : get_next_state_call(state, n)

(***************************** Python int() ********************************)
\* An entry's text is a sequence of characters.  int(text) strips blanks,
\* takes an optional sign, then decimal digits, single underscores allowed
\* between digits; anything else raises ValueError.
Digits == <<"0", "1", "2", "3", "4", "5", "6", "7", "8", "9">>
IsDigit(ch) == \E i \in DOMAIN Digits : Digits[i] = ch
DigitValue(ch) == (CHOOSE i \in DOMAIN Digits : Digits[i] = ch) - 1

strip(t) ==
    LET idx == {i \in DOMAIN t : t[i] # " "}
        first == CHOOSE i \in idx : \A j \in idx : i <= j
        final == CHOOSE i \in idx : \A j \in idx : j <= i
    IN  IF idx = {} THEN <<>> ELSE SubSeq(t, first, final)

int_signed(t) == Len(strip(t)) >= 1 /\ strip(t)[1] \in {"-", "+"}
int_body(t) == IF int_signed(t) THEN Tail(strip(t)) ELSE strip(t)

int_raises(t) ==
    LET body == int_body(t)
    IN  \/ body = <<>>
        \/ ~IsDigit(body[1])
        \/ ~IsDigit(body[Len(body)])
        \/ \E i \in DOMAIN body : ~IsDigit(body[i]) /\ body[i] # "_"
        \/ \E i \in 1..(Len(body) - 1) : body[i] = "_" /\ body[i + 1] = "_"

RECURSIVE digits_value(_, _, _)
digits_value(body, i, acc) ==
    IF i > Len(body) THEN acc
    ELSE IF body[i] = "_" THEN digits_value(body, i + 1, acc)
    ELSE digits_value(body, i + 1, 10 * acc + DigitValue(body[i]))

int_value(t) ==
    IF strip(t)[1] = "-"
    THEN 0 - digits_value(int_body(t), 1, 0)
    ELSE digits_value(int_body(t), 1, 0)

(***************************** GameConfigGUI *******************************)
\* The texts the entries hold when Set is pressed.  SpecConfig: not numbers,
\* zero, negative, valid, beyond the largest fps.  SpecGui: scales and sizes
\* that rebuild the board.
ConfigScaleTexts == {<<"x">>, <<"0">>, <<"2">>}
ConfigCellTexts == {<<>>, <<"-", "1">>}
ConfigFpsTexts ==
    {<<"3", ".", "5">>, <<"0">>, <<" ", "7">>, <<"1", "0", "0", "1">>}
GuiScaleTexts == {<<"1", "6">>, <<"8">>}
GuiCellTexts == {<<"1">>, <<"2">>, <<"3">>}
GuiFpsTexts == {<<"3", "0">>, <<"6", "0">>}

EntryTexts ==
    ConfigScaleTexts \cup ConfigCellTexts \cup ConfigFpsTexts
        \cup GuiScaleTexts \cup GuiCellTexts \cup GuiFpsTexts

\* "try: input_value = int(input_var.get()) / except ValueError", for each
\* text of the model: whether int() raises, and its value when it does not.
input_value ==
    [t \in EntryTexts |->
        IF int_raises(t) THEN [raises |-> TRUE, value |-> 0]
        ELSE [raises |-> FALSE, value |-> int_value(t)]]

\* _validate_scale, lines 216-233: the value stored for the entry's text, and
\* whether _board_needs_rebuild was set.
_validate_scale(text, current_value) ==
    IF input_value[text].raises
    THEN [value |-> current_value, rebuild |-> FALSE]
    ELSE IF input_value[text].value = current_value
         THEN [value |-> current_value, rebuild |-> FALSE]
    ELSE IF input_value[text].value < 1 THEN [value |-> 1, rebuild |-> TRUE]
    ELSE [value |-> input_value[text].value, rebuild |-> TRUE]

\* _validate_num_cells, lines 235-258 (screen_limit is never read).
_validate_num_cells(text, current_value) ==
    IF input_value[text].raises
    THEN [value |-> current_value, rebuild |-> FALSE]
    ELSE IF input_value[text].value = current_value
         THEN [value |-> current_value, rebuild |-> FALSE]
    ELSE IF input_value[text].value < 1 THEN [value |-> 1, rebuild |-> TRUE]
    ELSE [value |-> input_value[text].value, rebuild |-> TRUE]

\* _validate_fps without the test against 1000.
_validate_fps_unbounded(text, current_value) ==
    IF input_value[text].raises THEN current_value
    ELSE IF input_value[text].value = current_value THEN current_value
    ELSE IF input_value[text].value < 1 THEN 1
    ELSE input_value[text].value

\* _validate_fps, lines 260-281: the value stored.
_validate_fps(text, current_value) ==
    IF input_value[text].raises THEN current_value
    ELSE IF input_value[text].value = current_value THEN current_value
    ELSE IF input_value[text].value < 1 THEN 1
    ELSE IF input_value[text].value > MaxFps THEN MaxFps
    ELSE input_value[text].value

(***************************** GameApp *************************************)
\* The handle after() returns: one no pending callback has.  Tk never reuses
\* a handle; the model reuses those that nothing holds any more.
after_handle(pending) ==
    CHOOSE i \in 1..(Cardinality(pending) + 1) :
        /\ i \notin pending
        /\ \A j \in 1..(i - 1) : j \in pending

\* after_cancel and after on the ms of the pending callbacks.
cancelled(ms, pending) == [i \in pending |-> ms[i]]
scheduled(ms, id, t) == [i \in (DOMAIN ms) \cup {id} |-> IF i = id THEN t ELSE ms[i]]

\* stop() that cancels nothing.
stop_skipped(app) == app

\* GameApp.stop, lines 426-431, on the fields playing, play_id and timers.
stop(app) ==
    IF app.playing
    THEN [playing |-> FALSE, play_id |-> NoTimer,
          timers |-> app.timers \ {app.play_id}]
    ELSE app

\* What last records for a rebuild made by the configuration form: the
\* dimensions before it, and whether the simulation was running.
RebuildCall(px, py, running) ==
    [op |-> "change_size", err |-> NoError, px |-> px, py |-> py,
     running |-> running]

\* GameConfigGUI._set_options, lines 200-214, with the four entries holding
\* the texts ts, tx, ty, tf: the four validations, then stop() and
\* rebuild_board() when a validation asked for a rebuild.  Boards of more than
\* bound cells are left out.
_set_options(ts, tx, ty, tf, bound) ==
    LET scale == _validate_scale(ts, config.scale)
        cells_x == _validate_num_cells(tx, config.num_cells_x)
        cells_y == _validate_num_cells(ty, config.num_cells_y)
        fps == _validate_fps(tf, config.fps)
        app == stop([playing |-> playing, play_id |-> play_id, timers |-> timers])
        w == cells_x.value
        h == cells_y.value
    IN  /\ w * h <= bound
        /\ config' = [scale |-> scale.value, num_cells_x |-> w,
                      num_cells_y |-> h, fps |-> fps]
        /\ delay' = delay
        /\ IF scale.rebuild \/ cells_x.rebuild \/ cells_y.rebuild
           THEN /\ playing' = app.playing
                /\ play_id' = app.play_id
                /\ timers' = app.timers
                /\ after_ms' = cancelled(after_ms, app.timers)
                /\ \E A0 \in {{}, Range(w) \X Range(h)}, A \in Draws(w, h) :
                       change_size(w, h, A0, A,
                           RebuildCall(num_cells_x, num_cells_y, playing))
                /\ links' = redraw(board', initial_changes').links
                /\ canvas' = redraw(board', initial_changes').canvas
                /\ checks' = checks
           ELSE /\ last' = Call("set_options", NoError, 0, 0)
                /\ ret' = <<>>
                /\ UNCHANGED <<playing, play_id, timers, after_ms, num_cells_x,
                               num_cells_y, board, neighbors, generation,
                               live_count, rules, steps, initial_changes,
                               gui_vars>>

\* play_pause whose pause leaves the callback pending (no after_cancel).
PlayPause_uncancelled ==
    /\ IF ~playing
       THEN /\ playing' = TRUE
            /\ delay' = MsPerSecond \div config.fps
            /\ play_id' = after_handle(timers)
            /\ timers' = timers \cup {after_handle(timers)}
            /\ after_ms' = scheduled(after_ms, after_handle(timers), 0)
       ELSE /\ timers' = timers
            /\ after_ms' = after_ms
            /\ play_id' = NoTimer
            /\ playing' = FALSE
            /\ delay' = delay
    /\ last' = Call("play_pause", NoError, 0, 0)
    /\ ret' = <<>>
    /\ UNCHANGED <<config, num_cells_x, num_cells_y, board, neighbors,
                   generation, live_count, rules, steps, initial_changes,
                   gui_vars>>

\* GameApp.play_pause, lines 413-424.
PlayPause ==
    /\ IF ~playing
       THEN /\ playing' = TRUE
            /\ delay' = MsPerSecond \div config.fps
            /\ play_id' = after_handle(timers)
            /\ timers' = timers \cup {after_handle(timers)}
            /\ after_ms' = scheduled(after_ms, after_handle(timers), 0)
       ELSE /\ timers' = timers \ {play_id}
            /\ after_ms' = cancelled(after_ms, timers \ {play_id})
            /\ play_id' = NoTimer
            /\ playing' = FALSE
            /\ delay' = delay
    /\ last' = Call("play_pause", NoError, 0, 0)
    /\ ret' = <<>>
    /\ UNCHANGED <<config, num_cells_x, num_cells_y, board, neighbors,
                   generation, live_count, rules, steps, initial_changes,
                   gui_vars>>

\* The ms line 437 gives to after(), read from the configuration on every
\* frame.
frame_ms_reread(d, cfg) == MsPerSecond \div cfg.fps

\* The ms line 437 gives to after(): self._delay.
frame_ms(d, cfg) == d

\* Tk runs a pending callback: GameApp._play_frame, lines 434-437, while the
\* generation is below bound.  A KeyError of update() leaves line 437 unrun.
_play_frame(bound) ==
    \E id \in timers :
        /\ gui_update("play_frame", bound)
        /\ IF update_raises(board, neighbors, rules)
           THEN /\ play_id' = play_id
                /\ timers' = timers \ {id}
                /\ after_ms' = cancelled(after_ms, timers \ {id})
           ELSE /\ play_id' = after_handle(timers \ {id})
                /\ timers' = (timers \ {id}) \cup {after_handle(timers \ {id})}
                /\ after_ms' =
                       scheduled(cancelled(after_ms, timers \ {id}),
                                 after_handle(timers \ {id}),
                                 frame_ms(delay, config))
        /\ UNCHANGED <<config, playing, delay>>

(***************************** specifications ******************************)
\* GameBoard(config, rules), __init__ lines 71-85, with a fresh GameRules() and
\* a config holding num_cells_x = w, num_cells_y = h and the default scale and
\* fps; the fields of the application as GameApp.__init__ sets them.
Constructed(w, h, A) ==
    /\ num_cells_x = w
    /\ num_cells_y = h
    /\ board = _generate(w, h, A)
    /\ neighbors = _create_neighbor_map(_generate(w, h, A), w, h)
    /\ generation = 0
    /\ live_count = seed_live_count(0, A)
    /\ initial_changes = seed_changes(<<>>, _generate(w, h, A), A)
    /\ rules = DefaultRules
    /\ last = Call("construct", NoError, w, h)
    /\ ret = <<>>
    /\ steps = 0
    /\ config = [scale |-> DefaultScale, num_cells_x |-> w,
                 num_cells_y |-> h, fps |-> DefaultFps]
    /\ playing = FALSE
    /\ play_id = NoTimer
    /\ delay = InitialDelay
    /\ timers = {}
    /\ after_ms = cancelled(<<>>, {})

\* A GameBoard used without the widgets: no canvas, no checkbox.
Detached ==
    /\ links = <<>>
    /\ canvas = <<>>
    /\ checks = <<>>

\* GameBoardGUI.__init__, lines 77-80, and GameRulesGUI.__init__: the canvas
\* of the board just constructed, and the checkboxes.
Attached ==
    /\ links = redraw(board, initial_changes).links
    /\ canvas = redraw(board, initial_changes).canvas
    /\ checks = DefaultChecks

\* The board right after construction, from a config holding any integers
\* (GameConfig's setters store what they are given).
Init ==
    \E d \in ConfigSizes :
        \E A \in Draws(d[1], d[2]) : Constructed(d[1], d[2], A) /\ Detached

Next ==
    \/ ChangeSize
    \/ Reset
    \/ Clear
    \/ Toggle
    \/ Update

Spec == Init /\ [][Next]_vars

\* Stepping alone, from every freshly constructed board of at most
\* StepMaxCells cells.
StepSizes ==
    {d \in (1..StepMaxCells) \X (1..StepMaxCells) : d[1] * d[2] <= StepMaxCells}

StepInit ==
    \E d \in StepSizes :
        \E A \in Draws(d[1], d[2]) : Constructed(d[1], d[2], A) /\ Detached

StepUpdate == UpdateBelow(StepMaxGen)

StepNext == StepUpdate

SpecStep == StepInit /\ [][StepNext]_vars

\* The application: the configuration form, Play/Pause and the timer, on
\* boards of at most GuiMaxCells cells stepped up to generation GuiMaxGen.
GuiSizes ==
    {d \in (1..GuiMaxCells) \X (1..GuiMaxCells) : d[1] * d[2] <= GuiMaxCells}

\* GameApp.__init__, for every start size within the bound.
GuiInit ==
    \E d \in GuiSizes :
        \E A \in Draws(d[1], d[2]) : Constructed(d[1], d[2], A) /\ Attached

PlayFrame == _play_frame(GuiMaxGen)

\* GameApp.__init__, for every start size of SpecConfig.
FormInit ==
    \E d \in {e \in GuiSizes : e[1] * e[2] <= FormMaxCells} :
        \E A \in Draws(d[1], d[2]) : Constructed(d[1], d[2], A) /\ Attached

\* Set pressed with arbitrary texts.
ConfigSet ==
    \E ts \in ConfigScaleTexts, tx \in ConfigCellTexts, ty \in ConfigCellTexts,
       tf \in ConfigFpsTexts :
        _set_options(ts, tx, ty, tf, FormMaxCells)

ConfigNext ==
    \/ ConfigSet
    \/ PlayPause
    \/ PlayFrame

SpecConfig == FormInit /\ [][ConfigNext]_vars

\* Set pressed with texts that are scales and sizes.
GuiSet ==
    \E ts \in GuiScaleTexts, tx \in GuiCellTexts, ty \in GuiCellTexts,
       tf \in GuiFpsTexts :
        _set_options(ts, tx, ty, tf, GuiMaxCells)

\* The Advance button: GameApp.advance, lines 439-441.
Advance == gui_update("update", GuiMaxGen) /\ UNCHANGED app_vars

GuiNext ==
    \/ GuiSet
    \/ PlayPause
    \/ PlayFrame
    \/ Advance
    \/ GuiReset

SpecGui == GuiInit /\ [][GuiNext]_vars

\* The application with Tk's event loop running, on boards of at most
\* TimerMaxCells cells stepped up to generation TimerMaxGen.
TimerInit ==
    \E d \in {e \in GuiSizes : e[1] * e[2] <= TimerMaxCells} :
        \E A \in Draws(d[1], d[2]) : Constructed(d[1], d[2], A) /\ Attached

\* Set pressed with a scale and sizes, the fps left as it is: a rebuild
\* (stop) when one of them differs from the configuration.
TimerSet ==
    \E ts \in GuiScaleTexts, tx \in GuiCellTexts, ty \in GuiCellTexts :
        _set_options(ts, tx, ty, <<"3", "0">>, TimerMaxCells)

TimerFrame == _play_frame(TimerMaxGen)

TimerAdvance == gui_update("update", TimerMaxGen) /\ UNCHANGED app_vars

TimerNext ==
    \/ TimerSet
    \/ PlayPause
    \/ TimerFrame
    \/ TimerAdvance
    \/ GuiReset

\* A callback that stays pending is eventually run.
SpecTimer == TimerInit /\ [][TimerNext]_vars /\ WF_vars(TimerFrame)

\* The canvas: every operation of GameBoardGUI, on boards of at most
\* CanvasMaxCells cells stepped up to generation CanvasMaxGen.
CanvasInit ==
    \E d \in {e \in GuiSizes : e[1] * e[2] <= CanvasMaxCells} :
        \E A \in Draws(d[1], d[2]) : Constructed(d[1], d[2], A) /\ Attached

CanvasUpdate == gui_update("update", CanvasMaxGen) /\ UNCHANGED app_vars

\* Set pressed with a scale and sizes, the fps left as it is: change_size
\* when one of them differs from the configuration.
CanvasSet ==
    \E ts \in GuiScaleTexts, tx \in GuiCellTexts, ty \in GuiCellTexts :
        _set_options(ts, tx, ty, <<"3", "0">>, CanvasMaxCells)

CanvasNext ==
    \/ CanvasUpdate
    \/ GuiToggle
    \/ GuiClear
    \/ GuiReset
    \/ CanvasSet

SpecCanvas == CanvasInit /\ [][CanvasNext]_vars

\* The rule checkboxes: clicks, steps and rebuilds, on boards of at most
\* CheckMaxCells cells stepped up to generation CheckMaxGen.
ChecksInit ==
    \E d \in {e \in GuiSizes : e[1] * e[2] <= CheckMaxCells} :
        \E A \in Draws(d[1], d[2]) : Constructed(d[1], d[2], A) /\ Attached

CheckToggle == \E k \in CheckNames : CheckClick(k, MaxCheckEdits)

ChecksUpdate == gui_update("update", CheckMaxGen) /\ UNCHANGED app_vars

\* Set pressed with a scale, the sizes asking for one cell a side and the fps
\* left as it is: a rebuild when one of them differs from the configuration.
ChecksSet ==
    \E ts \in GuiScaleTexts :
        _set_options(ts, <<"1">>, <<"1">>, <<"3", "0">>, CheckMaxCells)

ChecksNext ==
    \/ CheckToggle
    \/ ChecksUpdate
    \/ ChecksSet

SpecChecks == ChecksInit /\ [][ChecksNext]_vars

\* The rule table edited between steps: boards of at most RuleMaxCells cells,
\* tables within MaxRuleEdits entries of the defaults.
RuleSizes ==
    {d \in (1..RuleMaxCells) \X (1..RuleMaxCells) : d[1] * d[2] <= RuleMaxCells}

RuleInit ==
    \E d \in RuleSizes :
        \E A \in Draws(d[1], d[2]) : Constructed(d[1], d[2], A) /\ Detached

SetRule == SetRuleWithin(MaxRuleEdits)

RuleUpdate == UpdateBelow(RuleMaxGen)

RuleNext ==
    \/ SetRule
    \/ RuleUpdate

SpecRules == RuleInit /\ [][RuleNext]_vars

\* The two calls of GameRules alone, on the table a board shares.
RuleCallsNext ==
    \/ SetRule
    \/ GetNextState

SpecRuleCalls == RuleInit /\ [][RuleCallsNext]_vars

(***************************** vocabulary of the claims *********************)
\* The grid [0, width) x [0, height) of the current dimensions.
Positions(w, h) == Range(w) \X Range(h)

\* (x, y) is inside the grid.
InGrid(x, y) == 0 <= x /\ x < num_cells_x /\ 0 <= y /\ y < num_cells_y

\* The positions p + (dx, dy), (dx, dy) in {-1,0,1}^2 minus (0,0), inside the
\* w x h grid.
Around(w, h, p) ==
    {q \in Positions(w, h) :
        \E dx \in {-1, 0, 1}, dy \in {-1, 0, 1} :
            /\ <<dx, dy>> # <<0, 0>>
            /\ q = <<p[1] + dx, p[2] + dy>>}

\* The number of in-bounds neighbours of p that are Alive on board b.
LiveAround(b, w, h, p) == Cardinality({q \in Around(w, h, p) : CellAt(b, q) = alive})

\* p comes before q in row-major scan order.
RowMajorBefore(p, q) == p[2] < q[2] \/ (p[2] = q[2] /\ p[1] < q[1])

\* The number of Alive cells found by a full scan.
CountAlive(b) == Cardinality({c \in Grid(b) : CellAt(b, c) = alive})

\* The elements of a list.
Elems(l) == {l[i] : i \in DOMAIN l}

(***************************** C1 ******************************************)
\* C1: after any sequence of operations, live_count equals the number of cells
\* whose state is Alive.  (toggle_cell and clear leave _live_count alone.)
C1_LiveCountExact == live_count = CountAlive(board)

(***************************** C2 ******************************************)
\* C2: update is synchronous: every cell's state after the step is
\* get_next_state(its pre-step state, the number of its in-bounds neighbours
\* Alive before the step); and a 3x3 all-Alive board with the default rules
\* ends with the 4 corners Alive and the other 5 cells Dead.
C2_Corners == {<<0, 0>>, <<2, 0>>, <<0, 2>>, <<2, 2>>}

C2_Step ==
    last'.op = "update" =>
        /\ Grid(board') = Grid(board)
        /\ \A c \in Positions(num_cells_x, num_cells_y) :
               CellAt(board', c) =
                   get_next_state(rules, CellAt(board, c),
                                  LiveAround(board, num_cells_x, num_cells_y, c))
        /\ ( /\ num_cells_x = 3
             /\ num_cells_y = 3
             /\ rules = DefaultRules
             /\ \A c \in Positions(3, 3) : CellAt(board, c) = alive )
           => \A c \in Positions(3, 3) :
                  CellAt(board', c) = IF c \in C2_Corners THEN alive ELSE dead

\* C2: every update step is synchronous (C2_Step), the 3x3 example included.
C2_SynchronousStep == [][C2_Step]_vars

\* C2 witness: the state after stepping the 3x3 all-Alive board: five cells reported Dead.
C2_Witness ==
    /\ last.op = "update"
    /\ num_cells_x = 3
    /\ num_cells_y = 3
    /\ Len(ret) = 5
    /\ \A i \in 1..Len(ret) : ret[i][2] = dead
    /\ \A c \in Positions(3, 3) :
           CellAt(board, c) = IF c \in C2_Corners THEN alive ELSE dead

(***************************** C3 ******************************************)
\* C3: the list update returns holds exactly one entry (cell, new state) per
\* cell that changed in the step, with the cell's post-step state, in
\* row-major order, and no entry for an unchanged cell.
C3_Step ==
    last'.op = "update" =>
        LET changed == {c \in Grid(board) : CellAt(board', c) # CellAt(board, c)}
        IN  /\ Len(ret') = Cardinality(changed)
            /\ \A i \in 1..Len(ret') :
                   /\ ret'[i][1] \in changed
                   /\ ret'[i][2] = CellAt(board', ret'[i][1])
            /\ \A i \in 1..Len(ret'), j \in 1..Len(ret') :
                   i < j => RowMajorBefore(ret'[i][1], ret'[j][1])

\* C3: every update step returns exactly the changed cells, in scan order.
C3_DeltaList == [][C3_Step]_vars

\* C3 witness: a step that reported a birth and a death and left some cell unreported.
C3_Witness ==
    /\ last.op = "update"
    /\ \E i \in 1..Len(ret), j \in 1..Len(ret) : ret[i][2] = alive /\ ret[j][2] = dead
    /\ Len(ret) < Cardinality(Grid(board))

(***************************** C4 ******************************************)
\* C4: toggle_cell(x, y) with (x, y) inside the grid flips exactly that cell,
\* leaves every other cell and the generation unchanged, and returns the
\* one-entry list [(that cell, its new state)].
C4_Step ==
    last'.op = "toggle" =>
      \A x \in ToggleXs, y \in ToggleYs :
        (InGrid(x, y) /\ toggle_cell(x, y)) =>
            /\ last'.err = NoError
            /\ Grid(board') = Grid(board)
            /\ \/ CellAt(board, <<x, y>>) = dead /\ CellAt(board', <<x, y>>) = alive
               \/ CellAt(board, <<x, y>>) = alive /\ CellAt(board', <<x, y>>) = dead
            /\ \A c \in Grid(board) \ {<<x, y>>} : CellAt(board', c) = CellAt(board, c)
            /\ generation' = generation
            /\ ret' = << << <<x, y>>, CellAt(board', <<x, y>>) >> >>

\* C4: every in-grid toggle_cell step flips that cell and nothing else.
C4_ToggleInGrid == [][C4_Step]_vars

\* C4 witness: an Alive cell was toggled Dead, after a step, beside another Alive cell.
C4_Witness ==
    /\ last.op = "toggle"
    /\ last.err = NoError
    /\ Len(ret) = 1
    /\ ret[1][2] = dead
    /\ generation >= 1
    /\ \E c \in Grid(board) : c # ret[1][1] /\ CellAt(board, c) = alive

(***************************** C5 ******************************************)
\* C5: toggle_cell(x, y) with (x, y) outside the grid fails with an error and
\* changes no cell, counter or generation; a negative coordinate never toggles
\* a cell on the opposite side.  (Python's negative indices wrap around.)
C5_Step ==
    last'.op = "toggle" =>
      \A x \in ToggleXs, y \in ToggleYs :
        (~InGrid(x, y) /\ toggle_cell(x, y)) =>
            /\ last'.err # NoError
            /\ board' = board
            /\ live_count' = live_count
            /\ generation' = generation

\* C5: every toggle_cell step outside the grid fails and changes nothing.
C5_ToggleOutsideFails == [][C5_Step]_vars

(***************************** C6 ******************************************)
\* C6: after clear(), every cell is Dead, live_count is 0 and the generation
\* has the value it had before.  (clear leaves _live_count alone.)
C6_Step ==
    last'.op = "clear" =>
        /\ \A c \in Grid(board') : CellAt(board', c) = dead
        /\ live_count' = 0
        /\ generation' = generation

\* C6: every clear step leaves all cells Dead, live_count 0, the generation kept.
C6_ClearResets == [][C6_Step]_vars

(***************************** C7 ******************************************)
\* C7: the generation is 0 after construction, reset and resize, grows by
\* exactly 1 on every update, and is unchanged by toggle_cell and clear; so it
\* always equals the number of updates since the last construction, reset or
\* resize, and never decreases between them.
C7_State ==
    /\ generation = steps
    /\ last.op \in {"construct", "reset", "change_size"} => generation = 0

C7_Step ==
    /\ last'.op = "update" => generation' = generation + 1
    /\ last'.op \in {"toggle", "clear"} => generation' = generation
    /\ last'.op \notin {"construct", "reset", "change_size"} => generation' >= generation

\* C7: the generation counts the updates since the last (re)build or reset.
C7_GenerationCounter == []C7_State /\ [][C7_Step]_vars

\* C7 witness: two updates, then a toggle: the generation is 2.
C7_Witness ==
    /\ generation = 2
    /\ steps = 2
    /\ last.op = "toggle"

(***************************** C8 ******************************************)
\* C8: constructing a board with a width or height <= 0 fails with an error
\* instead of producing a board.  (The range() loops just build no cells.)
C8_BadSizeFails ==
    (last.op = "construct" /\ (num_cells_x <= 0 \/ num_cells_y <= 0))
        => last.err # NoError

(***************************** C9 ******************************************)
\* C9: after a resize to (w2, h2) the board has exactly w2 x h2 cells, the
\* generation is 0, live_count is the number of Alive cells, the neighbour
\* topology is the one of (w2, h2), and toggle_cell on a position that was
\* valid before and is out of range for (w2, h2) fails with an error.
C9_State ==
    last.op = "change_size" =>
        /\ Grid(board) = Positions(num_cells_x, num_cells_y)
        /\ Cardinality(Grid(board)) = num_cells_x * num_cells_y
        /\ generation = 0
        /\ live_count = CountAlive(board)
        /\ DOMAIN neighbors = Grid(board)
        /\ \A p \in Grid(board) :
               /\ Elems(neighbors[p]) = Around(num_cells_x, num_cells_y, p)
               /\ Len(neighbors[p]) = Cardinality(Elems(neighbors[p]))
        /\ \A p \in Positions(last.px, last.py) :
               (p[1] >= num_cells_x \/ p[2] >= num_cells_y)
                   => get_cell_raises(board, p[1], p[2])

C9_Step ==
    last'.op = "toggle" =>
        \A x \in ToggleXs, y \in ToggleYs :
            ( /\ x >= 0
              /\ y >= 0
              /\ (x >= num_cells_x \/ y >= num_cells_y)
              /\ toggle_cell(x, y) )
            => (last'.err = IndexError /\ board' = board)

\* C9: the state after a resize, and toggles beyond the new grid.
C9_Resize == []C9_State /\ [][C9_Step]_vars

\* C9 witness: a resize that shrank the board and seeded an Alive cell.
C9_Witness ==
    /\ last.op = "change_size"
    /\ (last.px > num_cells_x \/ last.py > num_cells_y)
    /\ live_count >= 1
    /\ generation = 0

(***************************** C10 *****************************************)
\* C10: the neighbour list of every position p is exactly the set of the
\* positions p + (dx, dy) inside the grid: no wraparound, never p, no
\* duplicates.  With width, height >= 2: corners have 3 neighbours, the other
\* edge cells 5, interior cells 8.
C10_OnBorder(i, n) == i = 0 \/ i = n - 1

C10_Expected(w, h, p) ==
    IF C10_OnBorder(p[1], w) /\ C10_OnBorder(p[2], h) THEN 3
    ELSE IF C10_OnBorder(p[1], w) \/ C10_OnBorder(p[2], h) THEN 5
    ELSE 8

\* C10: every precomputed neighbour list is the in-grid offset set, 3 / 5 / 8 long.
C10_NeighborLists ==
    /\ DOMAIN neighbors = Positions(num_cells_x, num_cells_y)
    /\ \A p \in Positions(num_cells_x, num_cells_y) :
           /\ Elems(neighbors[p]) = Around(num_cells_x, num_cells_y, p)
           /\ p \notin Elems(neighbors[p])
           /\ Len(neighbors[p]) = Cardinality(Elems(neighbors[p]))
           /\ (num_cells_x >= 2 /\ num_cells_y >= 2)
                  => Len(neighbors[p]) = C10_Expected(num_cells_x, num_cells_y, p)

\* C10 witness: a 3x3 board: a corner, an edge midpoint and the centre.
C10_Witness ==
    /\ num_cells_x = 3
    /\ num_cells_y = 3
    /\ Len(neighbors[<<0, 0>>]) = 3
    /\ Len(neighbors[<<1, 0>>]) = 5
    /\ Len(neighbors[<<1, 1>>]) = 8

(***************************** C11 *****************************************)
\* C11 (as stated): set_rule and get_next_state with a count outside 0..8
\* raise an error and leave the table as it was, and no row ever holds a key
\* outside 0..8.
C11_State == \A s \in DOMAIN rules : DOMAIN rules[s] \subseteq NeighborCounts

C11_Step ==
    /\ last'.op = "set_rule" =>
           \A s \in CellState, n \in RuleCounts \ NeighborCounts, v \in CellState :
               set_rule_call(s, n, v) =>
                   (last'.err # NoError /\ rules' = rules)
    /\ last'.op = "get_next_state" =>
           \A s \in CellState, n \in RuleCounts \ NeighborCounts :
               get_next_state_call(s, n) =>
                   (last'.err # NoError /\ rules' = rules)

\* C11: counts outside 0..8 are refused by both calls and never become keys.
C11_CountChecked == []C11_State /\ [][C11_Step]_vars

(***************************** C12 *****************************************)
\* C12: the table of a fresh GameRules is Conway's (an Alive cell stays Alive
\* with 2 or 3 live neighbours, a Dead cell becomes Alive with exactly 3), and
\* whatever set_rule calls were made, every (state, count) of
\* {Dead, Alive} x 0..8 has an entry.
C12_Initial ==
    last.op = "construct" =>
        \A n \in NeighborCounts :
            /\ (rules[alive][n] = alive) <=> (n = 2 \/ n = 3)
            /\ (rules[dead][n] = alive) <=> (n = 3)
            /\ rules[alive][n] \in CellState
            /\ rules[dead][n] \in CellState

C12_Total ==
    \A s \in CellState, n \in NeighborCounts :
        /\ s \in DOMAIN rules
        /\ n \in DOMAIN rules[s]
        /\ ~get_next_state_raises(rules, s, n)

\* C12: Conway's defaults at construction, a total table ever after.
C12_RuleTable == C12_Initial /\ C12_Total

\* C12 witness: set_rule calls have left a table that differs from the
\* defaults at a count a cell can have.
C12_Witness ==
    /\ last.op = "set_rule"
    /\ \E s \in CellState, n \in NeighborCounts : rules[s][n] # DefaultRules[s][n]

(***************************** C13 *****************************************)
\* C13: set_rule(s, n, v), called on the table of any reachable state, leaves
\* v at (s, n); the update that directly follows a set_rule gives every cell
\* that was in state s with n live neighbours the state the table holds for
\* (s, n); after set_rule(Dead, 0, Alive) one step of an all-Dead board makes
\* every cell Alive.
C13_State ==
    \A s \in CellState, n \in NeighborCounts, v \in CellState :
        set_rule(rules, s, n, v)[s][n] = v

C13_Step ==
    /\ last'.op = "set_rule" => board' = board
    /\ (last.op = "set_rule" /\ last'.op = "update") =>
           /\ \A s \in CellState, n \in NeighborCounts, v \in CellState :
                  rules[s][n] = v =>
                      \A c \in Positions(num_cells_x, num_cells_y) :
                          ( /\ CellAt(board, c) = s
                            /\ LiveAround(board, num_cells_x, num_cells_y, c) = n )
                          => CellAt(board', c) = v
           /\ (rules[dead][0] = alive /\ CountAlive(board) = 0)
                  => CountAlive(board') = num_cells_x * num_cells_y

\* C13: update reads the table as the latest set_rule left it.
C13_RulesReread == []C13_State /\ [][C13_Step]_vars

\* C13 witness: with Dead/0 -> Alive set, a step has just made every cell of
\* an all-Dead board of several cells Alive.
C13_Witness ==
    /\ last.op = "update"
    /\ rules[dead][0] = alive
    /\ num_cells_x * num_cells_y >= 2
    /\ Len(ret) = num_cells_x * num_cells_y
    /\ \A i \in DOMAIN ret : ret[i][2] = alive

(***************************** C14 *****************************************)
\* The other state of a cell.
C14_Other(state) == CHOOSE t \in CellState : t # state

\* C14, one toggle_cell(x, y) inside the grid: the state before it is the
\* state after it with the reported cell <<x, y>> put back to its other state;
\* live_count and generation are kept.
C14_First ==
    \A x \in ToggleXs, y \in ToggleYs :
        (InGrid(x, y) /\ toggle_cell(x, y)) =>
            /\ last'.err = NoError
            /\ live_count' = live_count
            /\ generation' = generation
            /\ ret'[1][1] = <<x, y>>
            /\ ret'[1][2] = CellAt(board', <<x, y>>)
            /\ board = set_cells(board', <<ret'[1][1]>>, C14_Other(ret'[1][2]))

\* C14, the toggle_cell that directly follows a successful one, at the same
\* position (the cell ret reports): the board is back to what it was before
\* the first of the two.
C14_Second ==
    (last.op = "toggle" /\ last.err = NoError) =>
        LET c == ret[1][1]
        IN  toggle_cell(c[1], c[2]) =>
                /\ last'.err = NoError
                /\ board' = set_cells(board, <<c>>, C14_Other(ret[1][2]))
                /\ live_count' = live_count
                /\ generation' = generation

C14_Step == last'.op = "toggle" => (C14_First /\ C14_Second)

\* C14: toggle_cell(x, y) twice in succession inside the grid restores the
\* cell, every other cell, live_count and generation.
C14_ToggleTwice == [][C14_Step]_vars

\* C14 witness: a board whose count is exact and whose last call, a
\* toggle_cell, set a cell Alive: a seeded Alive cell toggled twice.
C14_Witness ==
    /\ last.op = "toggle"
    /\ last.err = NoError
    /\ ret[1][2] = alive
    /\ steps = 0
    /\ generation = 0
    /\ live_count = CountAlive(board)
    /\ num_cells_x * num_cells_y >= 2

(***************************** C15 *****************************************)
\* C15 (as stated): a step of an all-Dead board under the default rules,
\* however the board was reached, returns the empty list, adds 1 to the
\* generation, leaves every cell Dead and leaves live_count equal to 0.
C15_Step ==
    (last'.op = "update" /\ CountAlive(board) = 0 /\ rules = DefaultRules) =>
        /\ ret' = <<>>
        /\ generation' = generation + 1
        /\ CountAlive(board') = 0
        /\ live_count' = 0

\* C15: the all-Dead board is a fixed point with live_count 0.
C15_DeadFixedPoint == [][C15_Step]_vars

(***************************** C16 *****************************************)
\* The step as a function of the cells and the rule table alone: the
\* dimensions are read off the cells, each cell gets the table's entry for
\* its state and its live in-grid neighbours.
C16_NextCells(b, rls) ==
    [y \in DOMAIN b |-> [x \in DOMAIN b[y] |->
        rls[b[y][x]][LiveAround(b, RowLen(b), PyLen(b), <<x, y>>)]]]

\* The changed cells in row-major order, each with its new state.
C16_Delta(b, nb) ==
    LET changed(c) == CellAt(b, c) # CellAt(nb, c)
        sel == SelectSeq(ScanOrder(b), changed)
    IN  [i \in 1..Len(sel) |-> <<sel[i], CellAt(nb, sel[i])>>]

C16_Step ==
    last'.op = "update" =>
        /\ board' = C16_NextCells(board, rules)
        /\ ret' = C16_Delta(board, C16_NextCells(board, rules))

\* C16: the list update returns and the cells it leaves are a function of
\* the cells and the rule table before the call, whatever generation,
\* live_count and history the board has: two boards that agree on cells and
\* rules step alike.
C16_Deterministic == [][C16_Step]_vars

\* C16 witness: a step that changed cells on a board whose live_count had
\* drifted from its cells and whose generation was not 0.
C16_Witness ==
    /\ last.op = "update"
    /\ ret # <<>>
    /\ generation >= 2
    /\ live_count # CountAlive(board)

(***************************** C19 *****************************************)
\* C19, the state: every cell's live-neighbour count is within 0..8 and the
\* table has an entry for the cell's state and count, so update() cannot raise.
C19_State ==
    /\ \A c \in Grid(board) :
           /\ _get_num_live_neighbors(board, neighbors, c) \in NeighborCounts
           /\ CellAt(board, c) \in DOMAIN rules
           /\ _get_num_live_neighbors(board, neighbors, c)
                  \in DOMAIN rules[CellAt(board, c)]
    /\ ~update_raises(board, neighbors, rules)
    /\ last.op = "update" => last.err = NoError

\* C19, a failed update: no cell state, neither live_count nor generation
\* modified by the call.
C19_Step ==
    (last'.op = "update" /\ last'.err # NoError) =>
        /\ board' = board
        /\ live_count' = live_count
        /\ generation' = generation

C18_State ==
    last.op \in {"construct", "reset", "change_size"} =>
        /\ generation = 0
        /\ live_count = CountAlive(board)
        /\ Elems(initial_changes) =
               {<<c, alive>> : c \in {q \in Grid(board) : CellAt(board, q) = alive}}
        /\ Len(initial_changes) = CountAlive(board)

\* C18, reset(): dimensions and topology are kept.
C18_Step ==
    last'.op = "reset" =>
        /\ num_cells_x' = num_cells_x
        /\ num_cells_y' = num_cells_y
        /\ Grid(board') = Grid(board)
        /\ neighbors' = neighbors

\* C18: the seeded state after construction and reset.
C18_Seeded == []C18_State /\ [][C18_Step]_vars

\* C18 witness: a reset() of a board of two cells that seeded exactly one.
C18_Witness ==
    /\ last.op = "reset"
    /\ num_cells_x * num_cells_y = 2
    /\ Len(initial_changes) = 1
    /\ CountAlive(board) = 1

(***************************** C17 *****************************************)
\* C17: whatever texts Set was pressed with, the stored scale, num_cells_x
\* and num_cells_y are >= 1 and the stored fps is within 1..1000; the delay
\* play_pause computes at play start, 1000 // fps, is within 1..1000; a board
\* the form rebuilt has the stored dimensions, both >= 1.
C17_Validated ==
    /\ config.scale >= 1
    /\ config.num_cells_x >= 1
    /\ config.num_cells_y >= 1
    /\ config.fps >= 1
    /\ config.fps <= 1000
    /\ (last.op = "play_pause" /\ playing) =>
           /\ delay = 1000 \div config.fps
           /\ delay >= 1
           /\ delay <= 1000
    /\ playing => (delay >= 1 /\ delay <= 1000)
    /\ last.op = "change_size" =>
           /\ num_cells_x = config.num_cells_x
           /\ num_cells_y = config.num_cells_y
           /\ num_cells_x >= 1
           /\ num_cells_y >= 1
           /\ Grid(board) = Positions(num_cells_x, num_cells_y)

\* C17 witness: Play pressed after the form clamped a scale below 1 to 1 and
\* an fps above 1000 to 1000: the delay is 1 ms.
C17_Witness ==
    /\ last.op = "play_pause"
    /\ playing
    /\ config.scale = 1
    /\ config.fps = 1000
    /\ delay = 1

(***************************** C20 *****************************************)
\* C20, the state a rebuild by the form leaves: not playing, no handle held,
\* no frame callback pending.
C20_State ==
    last.op = "change_size" =>
        /\ ~playing
        /\ play_id = NoTimer
        /\ timers = {}

\* C20, the steps: a timer-driven step runs only while playing, and never as
\* part of a rebuild (which leaves generation 0); only Play starts the
\* simulation or installs a callback.
C20_Step ==
    /\ last'.op = "play_frame" => (playing /\ timers # {})
    /\ last'.op = "change_size" => (generation' = 0 /\ steps' = 0)
    /\ (~playing /\ playing') => last'.op = "play_pause"
    /\ (timers = {} /\ timers' # {}) => last'.op = "play_pause"

\* C20: a rebuild by the form stops the simulation first, and it stays
\* stopped until Play is pressed.
C20_RebuildStops == []C20_State /\ [][C20_Step]_vars

\* C20 witness: the form has just rebuilt the board while the simulation was
\* running, to other dimensions.
C20_Witness ==
    /\ last.op = "change_size"
    /\ last.running
    /\ (last.px # num_cells_x \/ last.py # num_cells_y)
    /\ ~playing
    /\ timers = {}

(***************************** C21 *****************************************)
\* C21: every pending frame callback was scheduled with 0 ms (by Play) or with
\* the delay in use, which is at least 1 ms.
C21_State ==
    /\ \A i \in timers : after_ms[i] = 0 \/ after_ms[i] = delay
    /\ playing => delay >= 1

C21_Step ==
    \* Play computes the delay as floor(1000 / fps) of the configured fps and
    \* schedules the first frame at once
    /\ (~playing /\ playing') =>
           /\ delay' * config.fps <= MsPerSecond
           /\ MsPerSecond < (delay' + 1) * config.fps
           /\ after_ms'[play_id'] = 0
    \* every frame schedules the next one with the delay in use
    /\ last'.op = "play_frame" =>
           (delay' = delay /\ after_ms'[play_id'] = delay)
    \* Set that changes the fps and rebuilds nothing leaves the simulation
    \* running, its delay and its pending callback as they were
    /\ (last'.op = "set_options" /\ config'.fps # config.fps) =>
           /\ playing' = playing
           /\ delay' = delay
           /\ play_id' = play_id
           /\ timers' = timers
           /\ after_ms' = after_ms
    \* the delay changes only when play starts
    /\ delay' # delay => (~playing /\ playing')

\* C21: the delay between frames is 1000 // fps as configured when play
\* starts; a change of the fps while running neither stops the simulation nor
\* changes the delay in use before the next start.
C21_DelayAtPlay == []C21_State /\ [][C21_Step]_vars

\* C21 witness: the fps was changed while running, and a frame has since
\* scheduled its successor with the delay computed from the former fps.
C21_Witness ==
    /\ playing
    /\ last.op = "play_frame"
    /\ delay # MsPerSecond \div config.fps
    /\ after_ms[play_id] = delay

(***************************** C22 *****************************************)
\* C22: at most one frame callback is pending; one is pending exactly when
\* _playing is true, and _play_id is then its handle (None otherwise).
C22_State ==
    /\ Cardinality(timers) <= 1
    /\ playing <=> timers # {}
    /\ playing => timers = {play_id}
    /\ ~playing => play_id = NoTimer

\* C22: a timer-driven step is only taken while playing, and it leaves the
\* simulation playing.
C22_Step == last'.op = "play_frame" => (playing /\ playing')

\* C22: the simulation does not stay playing for ever without a timer-driven
\* step: it is paused, stopped or at the last generation again and again, or
\* frames are played again and again.
C22_Frames ==
    \/ []<>(~playing \/ generation = TimerMaxGen)
    \/ []<><<TimerFrame>>_vars

\* C22: under every interleaving of Play/Pause, Set, Advance, Reset and timer
\* firings there is one pending callback exactly while playing, no
\* timer-driven step while paused or stopped, and while playing a step
\* eventually follows each step.
C22_OneTimer ==
    /\ []C22_State
    /\ [][C22_Step]_vars
    /\ C22_Frames

\* C22 witness: the timer has driven the board to the last generation of the
\* model, and the successor of that frame is the one callback
\* pending.
C22_Witness ==
    /\ playing
    /\ last.op = "play_frame"
    /\ generation = TimerMaxGen
    /\ steps >= 1
    /\ timers = {play_id}
    /\ after_ms[play_id] = delay

(***************************** C23 *****************************************)
\* C23: every cell of the board is linked to a rectangle of the canvas, no two
\* cells to the same one, and the rectangle is black when the cell is Alive
\* and white when it is Dead.
C23_State ==
    /\ DOMAIN links = Grid(board)
    /\ \A c \in Grid(board) : links[c] \in DOMAIN canvas
    /\ \A c, d \in Grid(board) : links[c] = links[d] => c = d
    /\ \A c \in Grid(board) :
           /\ CellAt(board, c) = alive => canvas[links[c]] = BLACK
           /\ CellAt(board, c) = dead => canvas[links[c]] = WHITE

\* C23: an update or a toggle keeps the links and recolours no rectangle but
\* those of the cells in the list it returned.
C23_Step ==
    last'.op \in {"update", "toggle"} =>
        /\ links' = links
        /\ DOMAIN canvas' = DOMAIN canvas
        /\ \A c \in Grid(board) :
               canvas'[links[c]] # canvas[links[c]]
                   => \E i \in DOMAIN ret' : ret'[i][1] = c

\* C23: after every operation of the GUI the canvas shows the board, drawn
\* from the returned deltas alone.
C23_CanvasShowsBoard == []C23_State /\ [][C23_Step]_vars

\* C23 witness: a click has just toggled a cell of a board that was stepped
\* before, and the canvas shows a black and a white rectangle.
C23_Witness ==
    /\ last.op = "toggle"
    /\ last.err = NoError
    /\ generation >= 1
    /\ \E c, d \in Grid(board) :
           /\ CellAt(board, c) = alive /\ canvas[links[c]] = BLACK
           /\ CellAt(board, d) = dead /\ canvas[links[d]] = WHITE

(***************************** C24 *****************************************)
\* C24: the table has the keys 0..8 for both states; the entry (Alive, n) is
\* Alive exactly when "survive n" is checked and the entry (Dead, n) is Alive
\* exactly when "born n" is checked.
C24_State ==
    /\ \A s \in CellState : DOMAIN rules[s] = NeighborCounts
    /\ \A n \in NeighborCounts :
           /\ rules[alive][n] = alive <=> checks[<<"survive", n>>]
           /\ rules[dead][n] = alive <=> checks[<<"born", n>>]
           /\ rules[alive][n] \in CellState
           /\ rules[dead][n] \in CellState

\* C24: a click flips one checkbox; a rebuild of the board keeps the table
\* and the checkboxes; nothing but a click changes either.
C24_Step ==
    /\ last'.op = "set_value" =>
           Cardinality({k \in CheckNames : checks'[k] # checks[k]}) = 1
    /\ last'.op = "change_size" => (rules' = rules /\ checks' = checks)
    /\ (rules' # rules \/ checks' # checks) => last'.op = "set_value"

\* C24: initially, after every sequence of clicks and across rebuilds the
\* rule table mirrors the checkboxes.
C24_RulesMirrorChecks == []C24_State /\ [][C24_Step]_vars

\* C24 witness: the board was rebuilt after a checkbox was changed, and the
\* table still holds the changed rule.
C24_Witness ==
    /\ last.op = "change_size"
    /\ checks # DefaultChecks
    /\ rules # DefaultRules

=============================================================================
